---- MODULE Spec2Model ----
\* Model of the serendipity scaffolding CLI's configuration engine:
\*   PackageManager (packages/serendipity-public/src/utils/package-manager.ts)
\*   ReactService   (packages/serendipity-service-react/src/core/ReactService.ts)
EXTENDS Integers, Sequences, FiniteSets, TLC

VARIABLES
  heap,      \* configuration objects by identity: object id -> mapping (key -> value)
  mgr,       \* PackageManager instances: status, packageConfig reference, managerName
  last,      \* the last PackageManager call: operation, arguments, outcome
  rs,        \* the ReactService instance and its collaborators (bundler, dev server, env)
  installs   \* addAndInstallModule calls suspended at `await runCommand`

vars == <<heap, mgr, last, rs, installs>>

\* ---------------------------------------------------------------------------
\* JavaScript values.  Every value carries its type tag t and its payload v.
\*   arrays are sequences, mappings are functions from key strings to values.
\* ---------------------------------------------------------------------------
Str(s)  == [t |-> "str",   v |-> s]
Num(n)  == [t |-> "num",   v |-> n]
Bool(b) == [t |-> "bool",  v |-> b]
Null    == [t |-> "null",  v |-> "null"]
Undef   == [t |-> "undef", v |-> "undef"]
Arr(s)  == [t |-> "arr",   v |-> s]
Obj(f)  == [t |-> "obj",   v |-> f]

EmptyMap == [k \in {} |-> Null]

\* a mapping with one entry, and the union of two mappings (right wins)
One(k, x) == [j \in {k} |-> x]
Put(f, k, x) == [j \in (DOMAIN f) \cup {k} |-> IF j = k THEN x ELSE f[j]]

\* obj[key]: undefined when the key is absent
Get(f, k) == IF k \in DOMAIN f THEN f[k] ELSE Undef

\* !val is true of null, undefined, false, 0 and ''
Falsy(x) ==
  \/ x.t \in {"null", "undef"}
  \/ (x.t = "bool" /\ x.v = FALSE)
  \/ (x.t = "num" /\ x.v = 0)
  \/ (x.t = "str" /\ x.v = "")

\* typeof val === 'object' is true of mappings, arrays and null
TypeofObject(x) == x.t \in {"obj", "arr", "null"}

\* Object.keys(val) of an array are its indices as strings
IdxKeys == <<"0", "1", "2", "3", "4", "5", "6", "7">>

\* Object.keys(val) / val[k] for a mapping or an array, as a mapping
Keyed(x) ==
  IF x.t = "obj" THEN x.v
  ELSE IF x.t = "arr"
    THEN [k \in {IdxKeys[i] : i \in DOMAIN x.v} |->
            x.v[CHOOSE i \in DOMAIN x.v : IdxKeys[i] = k]]
  ELSE EmptyMap

\* ---------------------------------------------------------------------------
\* webpackMerge: the merge function of the webpack-merge package, re-exported
\* by serendipity-public and used at package-manager.ts:139 and
\* ReactService.ts:42.  mergeTo builds a fresh mapping over the keys of both
\* arguments; its customizer joinArrays concatenates two arrays, merges two
\* plain mappings recursively and otherwise takes the right value; an
\* undefined result keeps the left value.
\* ---------------------------------------------------------------------------
Thrown == [t |-> "throw", v |-> "TypeError"]

RECURSIVE JoinArrays(_, _)
RECURSIVE MergeTo(_, _)

JoinArrays(a, b) ==
  IF a.t = "arr" /\ b.t = "arr" THEN Arr(a.v \o b.v)
  ELSE IF a.t = "obj" /\ b.t = "obj" THEN MergeTo(a.v, b.v)
  ELSE b

MergeTo(a, b) ==
  Obj([k \in (DOMAIN a) \cup (DOMAIN b) |->
         LET x == JoinArrays(Get(a, k), Get(b, k))
         IN  IF x.t = "undef" THEN Get(a, k) ELSE x])

\* webpackMerge(first, second): merging undefined is refused, Object.keys(null)
\* throws inside mergeTo; a falsy first configuration yields {}.
WebpackMerge(a, b) ==
  IF a.t = "undef" \/ b.t = "undef" THEN Thrown
  ELSE IF Falsy(a) THEN Obj(EmptyMap)
  ELSE IF b.t = "null" THEN Thrown
  ELSE MergeTo(Keyed(a), Keyed(b))

\* ---------------------------------------------------------------------------
\* mergeDependencies (utils/merge-deps): the Dependency Merger.
\* A range string is parsed to its major version; an unknown string is not a
\* valid range.
\* ---------------------------------------------------------------------------
RangeTable ==
  [r \in {"^2.0.0", "^16.0.0", "^17.0.0"} |->
     CASE r = "^2.0.0"  -> 2
       [] r = "^16.0.0" -> 16
       [] r = "^17.0.0" -> 17]

ValidRange(r) == r.t = "str" /\ r.v \in DOMAIN RangeTable
RangeMajor(r) == RangeTable[r.v]

\* incoming is a valid range newer than the existing one
NewerRange(incoming, existing) ==
  /\ ValidRange(incoming)
  /\ ValidRange(existing)
  /\ RangeMajor(incoming) > RangeMajor(existing)

\* an entry present in one map only is carried; for a name in both, the
\* incoming range wins only when it is valid and newer.  A new map is returned.
MergeDependencies(existing, incoming) ==
  IF existing.t # "obj" \/ incoming.t # "obj" THEN Thrown
  ELSE Obj([p \in (DOMAIN existing.v) \cup (DOMAIN incoming.v) |->
         IF p \notin DOMAIN incoming.v THEN existing.v[p]
         ELSE IF p \notin DOMAIN existing.v THEN incoming.v[p]
         ELSE IF NewerRange(incoming.v[p], existing.v[p]) THEN incoming.v[p]
         ELSE existing.v[p]])

\* ---------------------------------------------------------------------------
\* PackageManager.mergeIntoCurrent (package-manager.ts:98-142)
\* ---------------------------------------------------------------------------
\* resultOptions = {merge: true, ignoreNullOrUndefined: true}; Object.assign(resultOptions, options)
OptionNames == {"merge", "ignoreNullOrUndefined"}
ResultOptions(options) ==
  [n \in OptionNames |-> IF n \in DOMAIN options THEN options[n] ELSE TRUE]

IsDependenciesKey(key) == key = "dependencies" \/ key = "devDependencies"

\* MergeKey without the dependencies branch: dependency maps go through the
\* generic merge like any other mapping
MergeKeyGeneric(cfg, key, val, ro) ==
  LET oldValue == Get(cfg, key)
      done(c)  == [cfg |-> c, threw |-> FALSE]
      store(x) == IF x.t = "throw" THEN [cfg |-> cfg, threw |-> TRUE]
                  ELSE done(Put(cfg, key, x))
  IN  IF ro.ignoreNullOrUndefined /\ Falsy(val) THEN done(cfg)
      ELSE IF ~ro.merge \/ Falsy(oldValue) THEN done(Put(cfg, key, val))
      ELSE IF TypeofObject(val) /\ TypeofObject(oldValue)
        THEN store(WebpackMerge(oldValue, val))
      ELSE done(cfg)

\* one iteration of the for-loop: the config after it, or threw
MergeKey(cfg, key, val, ro) ==
  LET oldValue == Get(cfg, key)
      done(c)  == [cfg |-> c, threw |-> FALSE]
      store(x) == IF x.t = "throw" THEN [cfg |-> cfg, threw |-> TRUE]
                  ELSE done(Put(cfg, key, x))
  IN  IF ro.ignoreNullOrUndefined /\ Falsy(val) THEN done(cfg)
      ELSE IF ~ro.merge \/ Falsy(oldValue) THEN done(Put(cfg, key, val))
      ELSE IF TypeofObject(val) /\ IsDependenciesKey(key)
        THEN store(MergeDependencies(oldValue, val))
      ELSE IF TypeofObject(val) /\ TypeofObject(oldValue)
        THEN store(WebpackMerge(oldValue, val))
      ELSE done(cfg)

\* the loop over Object.keys(data), from entry i on; a throw leaves the
\* entries before it applied
RECURSIVE MergeLoop(_, _, _, _)
MergeLoop(cfg, data, ro, i) ==
  IF i > Len(data) THEN [cfg |-> cfg, threw |-> FALSE]
  ELSE LET r == MergeKey(cfg, data[i][1], data[i][2], ro)
       IN  IF r.threw THEN r ELSE MergeLoop(r.cfg, data, ro, i + 1)

\* the packageConfig object after mergeIntoCurrent(data, options)
MergeInto(cfg, data, options) == MergeLoop(cfg, data, ResultOptions(options), 1)

\* ---------------------------------------------------------------------------
\* PackageManager.getPackageConfig (package-manager.ts:180-193)
\* ---------------------------------------------------------------------------
\* val !== null && typeof val === 'object' && Object.keys(val).length === 0
IsEmptyObject(x) == x.t \in {"obj", "arr"} /\ DOMAIN Keyed(x) = {}

\* tmp after the for-in loop: tmp is this.packageConfig itself, so the deletes
\* act on the manager's own object
Pruned(cfg) ==
  [k \in {j \in DOMAIN cfg : ~IsEmptyObject(cfg[j])} |-> cfg[k]]

\* sortPackageJson (sort-package-json): a new object with the same fields, the
\* known package.json fields first in their conventional order
KeyRank ==
  [k \in {"name", "files", "eslintConfig", "dependencies"} |->
     CASE k = "name"         -> 1
       [] k = "files"        -> 2
       [] k = "eslintConfig" -> 3
       [] k = "dependencies" -> 4]

RECURSIVE SortedKeys(_)
SortedKeys(ks) ==
  IF ks = {} THEN <<>>
  ELSE LET k == CHOOSE j \in ks : \A i \in ks : KeyRank[j] <= KeyRank[i]
       IN  <<k>> \o SortedKeys(ks \ {k})

SortPackageJson(cfg) == [order |-> SortedKeys(DOMAIN cfg), fields |-> cfg]

\* ---------------------------------------------------------------------------
\* PackageManager.addAndInstallModule / getInstallCommand (package-manager.ts:205-248)
\* ---------------------------------------------------------------------------
NoOptions == [name |-> "", version |-> "", localPath |-> "", onError |-> "none", given |-> FALSE]

GetInstallCommand(managerName, io) ==
  [command |-> IF managerName = "yarn" THEN "yarn add" ELSE "npm install",
   args    |-> IF io.localPath # "" THEN <<"file:", io.localPath>>
               ELSE IF io.version # "" THEN <<io.name, "@", io.version>>
               ELSE <<io.name>>]

\* InstallOutcome with the rethrow left out: a failure without a handler
\* falls through to return {}
InstallOutcomeNoRethrow(io, run, resolve) ==
  IF ~io.given THEN [outcome |-> "ok", result |-> Obj(EmptyMap), onErrorCalled |-> FALSE]
  ELSE IF run = "ok" /\ resolve = "ok"
    THEN [outcome |-> "ok", result |-> Obj(One("module", Str(io.name))), onErrorCalled |-> FALSE]
  ELSE IF io.onError = "throws"
    THEN [outcome |-> "threw", result |-> Undef, onErrorCalled |-> TRUE]
  ELSE [outcome |-> "ok", result |-> Obj(EmptyMap), onErrorCalled |-> io.onError # "none"]

\* the promise's settlement (package-manager.ts:206-220): run is the
\* subprocess's end, resolve is whether the installed module can be required,
\* io.onError what the caller's handler does ("none": no handler, "returns",
\* "throws")
InstallOutcome(io, run, resolve) ==
  IF ~io.given THEN [outcome |-> "ok", result |-> Obj(EmptyMap), onErrorCalled |-> FALSE]
  ELSE IF run = "ok" /\ resolve = "ok"
    THEN [outcome |-> "ok", result |-> Obj(One("module", Str(io.name))), onErrorCalled |-> FALSE]
  ELSE IF io.onError = "none"
    THEN [outcome |-> "threw", result |-> Undef, onErrorCalled |-> FALSE]
  ELSE IF io.onError = "throws"
    THEN [outcome |-> "threw", result |-> Undef, onErrorCalled |-> TRUE]
  ELSE [outcome |-> "ok", result |-> Obj(EmptyMap), onErrorCalled |-> TRUE]

\* ---------------------------------------------------------------------------
\* The state of the package-config managers
\* ---------------------------------------------------------------------------
Managers == {1, 2}
ObjIds == {"BASE", "own1", "own2"}
Own(m) == IF m = 1 THEN "own1" ELSE "own2"

\* PACKAGE_JSON_BASE (serendipity-public constants): the default skeleton
PACKAGE_JSON_BASE ==
  [k \in {"name", "dependencies"} |->
     IF k = "name" THEN Str("app") ELSE Obj(EmptyMap)]

NoService == [pc |-> "none"]

NoManager == [status |-> "none", ref |-> "none", managerName |-> "none", defaulted |-> FALSE]

NoCall ==
  [op |-> "none", m |-> 0, data |-> <<>>, options |-> EmptyMap, before |-> <<>>,
   outcome |-> "ok", result |-> Undef, env |-> <<>>]

Call(op, m, data, options, outcome, result, env) ==
  [op |-> op, m |-> m, data |-> data, options |-> options, before |-> heap,
   outcome |-> outcome, result |-> result, env |-> env]

\* most addAndInstallModule calls waiting on their subprocess at one time
MaxInFlight == 2
InstallCalls == 1..MaxInFlight
NotRunning == [state |-> "none"]

\* the place the next suspended call takes
FreeCall == CHOOSE c \in InstallCalls :
  /\ installs[c] = NotRunning
  /\ \A d \in InstallCalls : installs[d] = NotRunning => c <= d

\* the config a loaded manager holds
Config(m) == heap[mgr[m].ref]
Loaded(m) == mgr[m].status = "loaded"

\* getPackageManagerName (package-manager.ts:285-288)
GetPackageManagerName(yarnLock) == IF yarnLock THEN "yarn" ELSE "npm"

\* resolveModule (utils/resolve-module) on <basePath>/package.json
ResolveModule(file) ==
  IF file.state = "ok" THEN [threw |-> FALSE, module |-> file.content]
  ELSE [threw |-> TRUE, module |-> EmptyMap]

\* ---------------------------------------------------------------------------
\* Bounds and input sets
\* ---------------------------------------------------------------------------
\* longest array a merge may build (the merges concatenate without limit)
MaxLen == 3

RECURSIVE ArraysWithin(_)
ArraysWithin(x) ==
  IF x.t = "arr" THEN Len(x.v) <= MaxLen /\ \A i \in DOMAIN x.v : ArraysWithin(x.v[i])
  ELSE IF x.t = "obj" THEN \A k \in DOMAIN x.v : ArraysWithin(x.v[k])
  ELSE TRUE

WithinBounds(cfg) == \A k \in DOMAIN cfg : ArraysWithin(cfg[k])

ScalarVals == {Str("app"), Str(""), Bool(FALSE), Num(0), Null, Undef}
React16 == Obj(One("react", Str("^16.0.0")))
React17 == Obj(One("react", Str("^17.0.0")))
DepMaps == {Obj(EmptyMap), React16, React17}
ExtendsA == Obj(One("extends", Arr(<<Str("a")>>)))
FilesA == Arr(<<Str("a")>>)

Entries ==
  ({"name"} \X ScalarVals) \cup ({"dependencies"} \X DepMaps)
    \cup {<<"eslintConfig", ExtendsA>>, <<"files", FilesA>>}

\* fragments: every single entry, and two with two keys
Fragments ==
  {<<e>> : e \in Entries}
    \cup {<< <<"dependencies", Null>>, <<"name", Str("app")>> >>,
          << <<"eslintConfig", ExtendsA>>, <<"dependencies", React17>> >>}

\* the options argument of mergeIntoCurrent: absent, or either field off
MergeOff == One("merge", FALSE)
IgnoreOff == One("ignoreNullOrUndefined", FALSE)
AllOptions == {EmptyMap, MergeOff, IgnoreOff, [n \in OptionNames |-> FALSE]}

\* the calls of mergeIntoCurrent that are made: every fragment under the
\* default options, some under the others
MergeCalls ==
  (Fragments \X {EmptyMap})
    \cup ({<< <<"dependencies", React16>> >>, << <<"eslintConfig", ExtendsA>> >>}
            \X {MergeOff})
    \cup ({<< <<"name", Null>> >>, << <<"name", Bool(FALSE)>> >>,
           << <<"dependencies", Null>>, <<"name", Str("app")>> >>}
            \X {IgnoreOff})

\* configs a caller hands to the constructor or to setPackageConfig
SomeConfigs ==
  {EmptyMap,
   [k \in {"name", "dependencies", "eslintConfig"} |->
      CASE k = "name" -> Str("app") [] k = "dependencies" -> Obj(One("vue", Str("^2.0.0")))
        [] k = "eslintConfig" -> Obj(EmptyMap)],
   [k \in {"dependencies", "files"} |->
      IF k = "dependencies" THEN Obj(EmptyMap) ELSE Arr(<<>>)]}

\* the small inputs of the specification with two managers
FewFragments ==
  {<< <<"dependencies", React17>> >>, << <<"name", Str("lib")>> >>}
FewConfigs == {EmptyMap, One("name", Str("app"))}

PackageFiles ==
  {[state |-> "missing", content |-> EmptyMap],
   [state |-> "unparsable", content |-> EmptyMap],
   [state |-> "ok", content |-> One("name", Str("app"))]}

\* installOptions: undefined, or a module by name, by name and version, or
\* by local path
InstallOptions ==
  {NoOptions,
   [name |-> "lodash", version |-> "", localPath |-> "", onError |-> "none", given |-> TRUE],
   [name |-> "lodash", version |-> "1.0.0", localPath |-> "", onError |-> "returns", given |-> TRUE],
   [name |-> "lodash", version |-> "", localPath |-> "/plugins/lodash", onError |-> "throws",
    given |-> TRUE],
   [name |-> "lodash", version |-> "1.0.0", localPath |-> "", onError |-> "none", given |-> TRUE],
   [name |-> "lodash", version |-> "", localPath |-> "/plugins/lodash", onError |-> "returns",
    given |-> TRUE]}

\* how the subprocess ends and whether the module then resolves
InstallEnvs == {<<"ok", "ok">>, <<"ok", "fail">>, <<"fail", "fail">>}

\* what is written to the config while an install waits
InstallFragments == {<< <<"name", Str("lib")>> >>}
InstallConfigs == {EmptyMap}

\* options.managerName and whether yarn.lock exists
NameArgs == {<<"", FALSE>>, <<"", TRUE>>, <<"yarn", FALSE>>}

\* ---------------------------------------------------------------------------
\* Operations
\* ---------------------------------------------------------------------------
Init ==
  /\ heap = [o \in ObjIds |-> IF o = "BASE" THEN PACKAGE_JSON_BASE ELSE EmptyMap]
  /\ mgr = [m \in Managers |-> NoManager]
  /\ last = NoCall
  /\ rs = NoService
  /\ installs = [c \in InstallCalls |-> NotRunning]

\* constructor (package-manager.ts:34-39): pc.given is whether options.packageConfig
\* was passed; the manager and the heap after it
Constructor(m, managerName, yarnLock, pc) ==
  [mgr  |-> [status      |-> "loaded",
             ref         |-> IF pc.given THEN Own(m) ELSE "BASE",
             managerName |-> IF managerName # "" THEN managerName
                             ELSE GetPackageManagerName(yarnLock),
             defaulted   |-> ~pc.given],
   heap |-> IF pc.given THEN [heap EXCEPT ![Own(m)] = pc.cfg] ELSE heap]

\* createWithOptions (package-manager.ts:68-70): no file is read
CreateWithOptions(m, managerName, yarnLock, pc, file) ==
  /\ mgr[m].status = "none"
  /\ LET c == Constructor(m, managerName, yarnLock, pc)
     IN  /\ mgr' = [mgr EXCEPT ![m] = c.mgr]
         /\ heap' = c.heap
  /\ last' = Call("createWithOptions", m, <<>>, EmptyMap, "ok", Bool(pc.given), file.state)
  /\ UNCHANGED <<rs, installs>>

\* resolvePackageConfig with the catch returning instead of throwing: the
\* manager keeps the object the constructor gave it
ResolvePackageConfigSwallow(m, file) ==
  LET r == ResolveModule(file)
  IN  IF r.threw THEN [threw |-> FALSE, ref |-> "BASE", cfg |-> heap["BASE"]]
      ELSE [threw |-> FALSE, ref |-> Own(m), cfg |-> r.module]

\* resolvePackageConfig (package-manager.ts:79-88): the manager's packageConfig
\* reference after it, or threw
ResolvePackageConfig(m, file) ==
  LET r == ResolveModule(file)
  IN  IF r.threw THEN [threw |-> TRUE, ref |-> "none", cfg |-> EmptyMap]
      ELSE [threw |-> FALSE, ref |-> Own(m), cfg |-> r.module]

\* createWithResolve (package-manager.ts:48-59)
CreateWithResolve(m, yarnLock, file) ==
  /\ mgr[m].status = "none"
  /\ LET c == Constructor(m, GetPackageManagerName(yarnLock), yarnLock,
                          [given |-> FALSE, cfg |-> EmptyMap])
         r == ResolvePackageConfig(m, file)
     IN  IF r.threw
         THEN /\ mgr' = [mgr EXCEPT ![m] = [NoManager EXCEPT !.status = "failed"]]
              /\ heap' = heap
              /\ last' = Call("createWithResolve", m, <<>>, EmptyMap, "threw",
                              Str("Error: package.json does not exist"), file.state)
         ELSE /\ mgr' = [mgr EXCEPT ![m] = [c.mgr EXCEPT !.ref = r.ref, !.defaulted = FALSE]]
              /\ heap' = [heap EXCEPT ![r.ref] = r.cfg]
              /\ last' = Call("createWithResolve", m, <<>>, EmptyMap, "ok", Undef, file.state)
  /\ UNCHANGED <<rs, installs>>

\* mergeIntoCurrent (package-manager.ts:98-142): writes into the object the
\* manager refers to
MergeIntoCurrent(m, data, options) ==
  /\ Loaded(m)
  /\ LET r == MergeInto(Config(m), data, options)
     IN  /\ WithinBounds(r.cfg)
         /\ heap' = [heap EXCEPT ![mgr[m].ref] = r.cfg]
         /\ last' = Call("mergeIntoCurrent", m, data, options,
                         IF r.threw THEN "threw" ELSE "ok", Undef, <<>>)
  /\ UNCHANGED <<mgr, rs, installs>>

\* getPackageConfig without the delete loop
GetPackageConfigResultUnpruned(cfg) == SortPackageJson(cfg)

\* the object getPackageConfig leaves behind, and the one it returns
GetPackageConfigKept(cfg) == Pruned(cfg)
GetPackageConfigResult(cfg) == SortPackageJson(Pruned(cfg))

\* getPackageConfig (package-manager.ts:180-193)
GetPackageConfig(m) ==
  /\ Loaded(m)
  /\ heap' = [heap EXCEPT ![mgr[m].ref] = GetPackageConfigKept(Config(m))]
  /\ last' = Call("getPackageConfig", m, <<>>, EmptyMap, "ok",
                  GetPackageConfigResult(Config(m)), <<>>)
  /\ UNCHANGED <<mgr, rs, installs>>

\* setPackageConfig (package-manager.ts:259-261): the caller's object replaces
\* the reference
SetPackageConfig(m, cfg) ==
  /\ Loaded(m)
  /\ mgr' = [mgr EXCEPT ![m].ref = Own(m)]
  /\ heap' = [heap EXCEPT ![Own(m)] = cfg]
  /\ last' = Call("setPackageConfig", m, <<>>, EmptyMap, "ok", Undef, <<>>)
  /\ UNCHANGED <<rs, installs>>

\* addAndInstallModule up to its await (package-manager.ts:205-210): without
\* installOptions it returns {} at once; with them it computes the command,
\* starts the subprocess and hands its caller a pending promise.  The call
\* waits in installs until the subprocess ends; other calls run meanwhile.
AddAndInstallModule(m, io) ==
  /\ Loaded(m)
  /\ IF ~io.given
     THEN /\ LET r == InstallOutcome(io, "none", "none")
             IN  last' = Call("addAndInstallModule", m, <<>>, io, r.outcome, r.result,
                              [run |-> "none", resolve |-> "none",
                               onErrorCalled |-> r.onErrorCalled])
          /\ UNCHANGED installs
     ELSE /\ \E c \in InstallCalls : installs[c] = NotRunning
          /\ LET c == FreeCall
                 command == GetInstallCommand(mgr[m].managerName, io)
             IN  /\ installs' = [installs EXCEPT ![c] =
                                   [state |-> "running", m |-> m, io |-> io,
                                    command |-> command, before |-> heap]]
                 /\ last' = Call("addAndInstallModule", m, command, io, "pending", Undef,
                                 [run |-> "running", resolve |-> "none",
                                  onErrorCalled |-> FALSE])
  /\ UNCHANGED <<heap, mgr, rs>>

\* addAndInstallModule from its await on (package-manager.ts:210-220): the
\* subprocess of call c has ended; the module is resolved or the catch runs,
\* and the promise settles.  Calls settle in any order.
AddAndInstallModuleResume(c, run, resolve) ==
  /\ installs[c] # NotRunning
  /\ LET call == installs[c]
         r == InstallOutcome(call.io, run, resolve)
     IN  last' = [op |-> "addAndInstallModule", m |-> call.m, data |-> call.command,
                  options |-> call.io, before |-> call.before,
                  outcome |-> r.outcome, result |-> r.result,
                  env |-> [run |-> run, resolve |-> resolve,
                           onErrorCalled |-> r.onErrorCalled]]
  /\ installs' = [installs EXCEPT ![c] = NotRunning]
  /\ UNCHANGED <<heap, mgr, rs>>

\* one manager under every fragment and option
Next ==
  \/ \E c \in SomeConfigs :
       CreateWithOptions(1, "", FALSE, [given |-> TRUE, cfg |-> c],
                         [state |-> "ok", content |-> c])
  \/ \E c \in MergeCalls : MergeIntoCurrent(1, c[1], c[2])
  \/ GetPackageConfig(1)
  \/ \E c \in SomeConfigs : SetPackageConfig(1, c)

Spec == Init /\ [][Next]_vars

\* two managers over their whole life, under few fragments
NextLife ==
  \/ \E m \in Managers, n \in {<<"", FALSE>>}, f \in PackageFiles,
        pc \in {[given |-> FALSE, cfg |-> EmptyMap]}
               \cup {[given |-> TRUE, cfg |-> c] : c \in FewConfigs} :
       CreateWithOptions(m, n[1], n[2], pc, f)
  \/ \E m \in Managers, f \in PackageFiles : CreateWithResolve(m, m = 2, f)
  \/ \E m \in Managers, d \in FewFragments : MergeIntoCurrent(m, d, EmptyMap)
  \/ \E m \in Managers : GetPackageConfig(m)
  \/ \E m \in Managers, c \in FewConfigs : SetPackageConfig(m, c)

SpecLife == Init /\ [][NextLife]_vars

\* one manager installing modules, under either package manager; while a
\* subprocess runs the manager takes further calls
NextInstall ==
  \/ \E n \in NameArgs, f \in PackageFiles,
        pc \in {[given |-> FALSE, cfg |-> EmptyMap]}
               \cup {[given |-> TRUE, cfg |-> c] : c \in FewConfigs} :
       CreateWithOptions(1, n[1], n[2], pc, f)
  \/ \E y \in BOOLEAN, f \in PackageFiles : CreateWithResolve(1, y, f)
  \/ \E io \in InstallOptions : AddAndInstallModule(1, io)
  \/ \E c \in InstallCalls, e \in InstallEnvs : AddAndInstallModuleResume(c, e[1], e[2])
  \/ \E d \in InstallFragments : MergeIntoCurrent(1, d, EmptyMap)
  \/ \E cfg \in InstallConfigs : SetPackageConfig(1, cfg)

SpecInstall == Init /\ [][NextInstall]_vars

\* ---------------------------------------------------------------------------
\* ReactService (ReactService.ts)
\* ---------------------------------------------------------------------------
\* most plugins in the project's plugin list
MaxPlugins == 2

DEFAULT_WEBPACK_DEV_SERVER_PORT == 9000
DEFAULT_WEBPACK_DEV_SERVER_HOST == "0.0.0.0"

\* getBaseConfig(appConfig) (webpack/webpackBase): the base configuration
GetBaseConfig == Obj(One("plugins", Arr(<<Str("html")>>)))

\* getDevServerConfig() (webpack/devServerConfig): called without arguments
GetDevServerConfig ==
  [port |-> Num(DEFAULT_WEBPACK_DEV_SERVER_PORT), host |-> Str(DEFAULT_WEBPACK_DEV_SERVER_HOST)]

\* String(port)
PortString(p) ==
  IF p.t # "num" THEN p.v
  ELSE CASE p.v = 0 -> "0" [] p.v = 3000 -> "3000" [] p.v = 8080 -> "8080"
         [] p.v = 9000 -> "9000"

\* webpack fragments
PluginsOf(x) == Obj(One("plugins", Arr(<<Str(x)>>)))
ModeOf(x) == Obj(One("mode", Str(x)))
DevServerPort == Obj(One("devServer", Obj(One("port", Num(8080)))))

\* a plugin module: whether it has a runtime hook, and the calls of
\* mergeWebpackConfig its hook makes, each with its list of configurations
PluginModules ==
  {[runtime |-> TRUE,  calls |-> << <<PluginsOf("a")>> >>],
   [runtime |-> TRUE,  calls |-> << <<ModeOf("production"), PluginsOf("b")>>, <<DevServerPort>> >>],
   [runtime |-> TRUE,  calls |-> <<>>],
   [runtime |-> FALSE, calls |-> <<>>]}

PluginLists == UNION {[1..n -> PluginModules] : n \in 0..MaxPlugins}

\* the project's app config: webpack.webpackConfig and the additional
\* webpackDevServerPort / webpackDevServerHost, each possibly undefined
AppConfigs ==
  [webpackConfig : {Undef, Obj([k \in {"mode", "plugins"} |->
                                  IF k = "mode" THEN Str("development")
                                  ELSE Arr(<<Str("user")>>)])},
   port : {Undef, Num(0), Num(3000)},
   host : {Undef, Str("localhost")}]

\* mergeWebpackConfig (ReactService.ts:41-43): webpackMerge(this.webpackConfig, ...configurations)
RECURSIVE MergeWebpackConfig(_, _)
MergeWebpackConfig(cfg, configurations) ==
  IF configurations = <<>> THEN cfg
  ELSE MergeWebpackConfig(WebpackMerge(cfg, Head(configurations)), Tail(configurations))

\* the calls one runtime hook makes, in order
RECURSIVE RunHook(_, _)
RunHook(cfg, calls) ==
  IF calls = <<>> THEN cfg
  ELSE RunHook(MergeWebpackConfig(cfg, Head(calls)), Tail(calls))

\* runRuntimePlugins (ReactService.ts:52-59), from plugin i on: pluginModule.runtime
\* is called whether or not it is a function
RECURSIVE RunRuntimePlugins(_, _, _)
RunRuntimePlugins(cfg, plugins, i) ==
  IF i > Len(plugins) THEN [cfg |-> cfg, threw |-> FALSE]
  ELSE IF ~plugins[i].runtime THEN [cfg |-> cfg, threw |-> TRUE]
  ELSE RunRuntimePlugins(RunHook(cfg, plugins[i].calls), plugins, i + 1)

\* the user's webpack config is merged last (ReactService.ts:73-75, 114-116)
MergeUserConfig(cfg, appConfig) ==
  IF Falsy(appConfig.webpackConfig) THEN cfg
  ELSE MergeWebpackConfig(cfg, <<appConfig.webpackConfig>>)

\* a || b
OrElse(a, b) == IF Falsy(a) THEN b ELSE a

\* constructor (ReactService.ts:29-33)
NewReactService(plugins, appConfig) ==
  /\ rs.pc = "none"
  /\ rs' = [pc |-> "constructed", plugins |-> plugins, appConfig |-> appConfig,
            webpackConfig |-> GetBaseConfig, devServerConfig |-> GetDevServerConfig,
            bundler |-> Undef, envPort |-> "", listen |-> <<>>]
  /\ UNCHANGED <<heap, mgr, last, installs>>

\* start (ReactService.ts:67-99)
Start ==
  /\ rs.pc = "constructed"
  /\ LET r == RunRuntimePlugins(rs.webpackConfig, rs.plugins, 1)
         merged == MergeUserConfig(r.cfg, rs.appConfig)
         devServerOptions == rs.devServerConfig
     IN  IF r.threw
         THEN rs' = [rs EXCEPT !.pc = "failed", !.webpackConfig = r.cfg]
         ELSE rs' = [rs EXCEPT
                       !.pc = "listening",
                       !.webpackConfig = merged,
                       !.envPort = PortString(devServerOptions.port),
                       !.bundler = merged,
                       !.listen = [port |-> OrElse(rs.appConfig.port,
                                                   Num(DEFAULT_WEBPACK_DEV_SERVER_PORT)),
                                   host |-> OrElse(rs.appConfig.host,
                                                   Str(DEFAULT_WEBPACK_DEV_SERVER_HOST))]]
  /\ UNCHANGED <<heap, mgr, last, installs>>

\* build (ReactService.ts:107-124)
Build ==
  /\ rs.pc = "constructed"
  /\ LET r == RunRuntimePlugins(rs.webpackConfig, rs.plugins, 1)
         merged == MergeUserConfig(r.cfg, rs.appConfig)
     IN  IF r.threw
         THEN rs' = [rs EXCEPT !.pc = "failed", !.webpackConfig = r.cfg]
         ELSE rs' = [rs EXCEPT !.pc = "built", !.webpackConfig = merged, !.bundler = merged]
  /\ UNCHANGED <<heap, mgr, last, installs>>

NextReact ==
  \/ \E ps \in PluginLists, a \in AppConfigs : NewReactService(ps, a)
  \/ Start
  \/ Build

SpecReact == Init /\ [][NextReact]_vars

\* ---------------------------------------------------------------------------
\* Properties
\* ---------------------------------------------------------------------------
\* the object the last call's manager referred to, before the call and now
Target == mgr[last.m].ref
Before == last.before[Target]
After == heap[Target]

\* C1: for every config a manager holds and every fragment, merging the
\* fragment twice with merge: true leaves the config that merging it once
\* leaves (mappings holding arrays and top-level arrays included).
C1_MergeTwiceIsMergeOnce ==
  \A m \in Managers :
    Loaded(m) =>
      \A d \in Fragments, o \in {EmptyMap, IgnoreOff} :
        LET once == MergeInto(Config(m), d, o).cfg
        IN  MergeInto(once, d, o).cfg = once

\* C2: in a merge of two dependency maps under the default options, an
\* incoming older range does not replace the existing newer range of the same
\* package (react ^17.0.0 stays when ^16.0.0 is merged in).
C2_OlderRangeDoesNotWin ==
  (last.op = "mergeIntoCurrent" /\ last.options = EmptyMap) =>
    \A i \in DOMAIN last.data :
      LET key == last.data[i][1]
          val == last.data[i][2]
          old == Get(Before, key)
      IN  (IsDependenciesKey(key) /\ val.t = "obj" /\ old.t = "obj") =>
            \A p \in (DOMAIN val.v) \cap (DOMAIN old.v) :
              (ValidRange(val.v[p]) /\ ValidRange(old.v[p])
                 /\ RangeMajor(val.v[p]) < RangeMajor(old.v[p]))
                => /\ Get(After, key).t = "obj"
                   /\ p \in DOMAIN Get(After, key).v
                   /\ Get(After, key).v[p] = old.v[p]

\* react ^16.0.0 was merged into a config holding react ^17.0.0
C2_Witness ==
  /\ last.op = "mergeIntoCurrent"
  /\ last.options = EmptyMap
  /\ last.data = << <<"dependencies", React16>> >>
  /\ Get(Before, "dependencies") = React17
  /\ Get(After, "dependencies") = React17

\* C3: the object getPackageConfig returns has no top-level key whose value
\* is an empty mapping.
C3_NoEmptyMappingReturned ==
  last.op = "getPackageConfig" =>
    /\ \A k \in DOMAIN last.result.fields : last.result.fields[k] # Obj(EmptyMap)
    /\ \A i \in DOMAIN last.result.order : last.result.order[i] \in DOMAIN last.result.fields

\* getPackageConfig was called on a config that held an empty mapping
C3_Witness ==
  /\ last.op = "getPackageConfig"
  /\ \E k \in DOMAIN Before : Before[k] = Obj(EmptyMap)
  /\ last.result.fields # EmptyMap

\* C4: getPackageConfig is pure: the manager's in-memory config is the same
\* after the call as before it.
C4_GetPackageConfigIsPure ==
  last.op = "getPackageConfig" => After = Before

\* C5: with ignoreNullOrUndefined true, a fragment key is skipped exactly when
\* its value is null or undefined: then the existing value stays, and any other
\* value (false, 0 and '' included) is written when the key had no value.
C5_OnlyNullOrUndefinedSkipped ==
  (last.op = "mergeIntoCurrent" /\ ResultOptions(last.options).ignoreNullOrUndefined
     /\ last.outcome = "ok") =>
    \A i \in DOMAIN last.data :
      LET key == last.data[i][1]
          val == last.data[i][2]
      IN  /\ val.t \in {"null", "undef"} => Get(After, key) = Get(Before, key)
          /\ (val.t \notin {"null", "undef"} /\ key \notin DOMAIN Before)
               => (key \in DOMAIN After /\ After[key] = val)

\* C6: two managers constructed without a packageConfig share no config: a
\* mergeIntoCurrent or getPackageConfig on one changes neither the config seen
\* through the other nor the default skeleton.
C6_NoSharedConfig ==
  (last.op \in {"mergeIntoCurrent", "getPackageConfig"} /\ mgr[last.m].defaulted) =>
    /\ heap["BASE"] = last.before["BASE"]
    /\ \A o \in Managers \ {last.m} :
         (Loaded(o) /\ mgr[o].defaulted) => Config(o) = last.before[mgr[o].ref]

\* C7 as claimed: constructing a manager, by either factory, where package.json
\* is missing or unparsable and no packageConfig is passed fails and leaves no
\* loaded manager.
C7_MissingFileAlwaysFails ==
  (/\ last.op \in {"createWithOptions", "createWithResolve"}
   /\ last.env \in {"missing", "unparsable"}
   /\ ~(last.result.t = "bool" /\ last.result.v)) =>
    (last.outcome = "threw" /\ ~Loaded(last.m))

\* C7 as amended: createWithResolve fails on a missing or unparsable
\* package.json and leaves no loaded manager; createWithOptions without a
\* packageConfig reads no file and yields a manager on PACKAGE_JSON_BASE.
C7_ResolveFailsOptionsDefault ==
  /\ (last.op = "createWithResolve" /\ last.env \in {"missing", "unparsable"}) =>
       (last.outcome = "threw" /\ mgr[last.m].status = "failed")
  /\ (last.op = "createWithResolve" /\ last.env = "ok") =>
       (last.outcome = "ok" /\ Loaded(last.m) /\ Target = Own(last.m))
  /\ (last.op = "createWithOptions" /\ ~last.result.v) =>
       (last.outcome = "ok" /\ Loaded(last.m) /\ Target = "BASE")

\* createWithResolve met a missing package.json
C7_Witness ==
  /\ last.op = "createWithResolve"
  /\ last.env = "missing"
  /\ last.outcome = "threw"
  /\ mgr[last.m].status = "failed"

\* the last addAndInstallModule call to settle had started the subprocess, and
\* the subprocess, or the resolution after it, failed
InstallFailed ==
  /\ last.op = "addAndInstallModule"
  /\ last.options.given
  /\ (last.env.run = "fail" \/ last.env.resolve = "fail")

\* C8 as claimed: whenever the install fails, whatever the options, the call
\* fails with an error.
C8_FailedInstallAlwaysThrows ==
  InstallFailed => last.outcome = "threw"

\* C8 as amended: a failed install throws unless installOptions.onError is a
\* function; then onError receives the error and, when it returns, the call
\* completes with {}.
C8_FailedInstallThrowsOrCallsOnError ==
  InstallFailed =>
    /\ last.options.onError = "none" => (last.outcome = "threw" /\ ~last.env.onErrorCalled)
    /\ last.options.onError = "throws" => (last.outcome = "threw" /\ last.env.onErrorCalled)
    /\ last.options.onError = "returns" =>
         (last.outcome = "ok" /\ last.result = Obj(EmptyMap) /\ last.env.onErrorCalled)

\* a failed install was handed to onError and the call returned {}, while a
\* call started after it still waits on its subprocess
C8_Witness ==
  /\ InstallFailed
  /\ last.options.onError = "returns"
  /\ last.outcome = "ok"
  /\ last.result = Obj(EmptyMap)
  /\ installs[1] = NotRunning
  /\ installs[2] # NotRunning

\* the configurations the plugins that have a runtime hook contribute, in
\* plugin-list order
RECURSIVE Contributed(_)
Contributed(plugins) ==
  IF plugins = <<>> THEN <<>>
  ELSE LET p == Head(plugins)
           RECURSIVE Flat(_)
           Flat(calls) == IF calls = <<>> THEN <<>> ELSE Head(calls) \o Flat(Tail(calls))
       IN  (IF p.runtime THEN Flat(p.calls) ELSE <<>>) \o Contributed(Tail(plugins))

RECURSIVE MergeAll(_, _)
MergeAll(cfg, fs) ==
  IF fs = <<>> THEN cfg ELSE MergeAll(MergeTo(cfg.v, Head(fs).v), Tail(fs))

\* C9: start and build hand the bundler the base config with every plugin's
\* fragments merged in plugin-list order and the user's webpackConfig merged
\* last; a plugin without a runtime hook is skipped and causes no failure.
C9_PluginsInOrderThenUser ==
  rs.pc \in {"listening", "built", "failed"} =>
    /\ rs.pc # "failed"
    /\ rs.bundler =
         MergeAll(GetBaseConfig,
                  Contributed(rs.plugins)
                    \o (IF rs.appConfig.webpackConfig = Undef THEN <<>>
                        ELSE <<rs.appConfig.webpackConfig>>))

\* C10: the dev server listens on the user's host and port when they are set
\* and on the defaults otherwise, whatever the plugins merged; DEV_SERVER_PORT
\* is that port.
C10_UserHostPortAndEnv ==
  rs.pc = "listening" =>
    /\ rs.listen.port = (IF Falsy(rs.appConfig.port)
                         THEN Num(DEFAULT_WEBPACK_DEV_SERVER_PORT) ELSE rs.appConfig.port)
    /\ rs.listen.host = (IF Falsy(rs.appConfig.host)
                         THEN Str(DEFAULT_WEBPACK_DEV_SERVER_HOST) ELSE rs.appConfig.host)
    /\ rs.envPort = PortString(rs.listen.port)

====
